---- MODULE Spec2Model ----
(***************************************************************************)
(* The progress controller of src/js/app.js: one Vue instance whose data   *)
(* is the single number "progress" and whose methods are advance() and     *)
(* retreat().  Each method body is one assignment, run to completion on    *)
(* the browser's event loop, so each call is one step of the model.        *)
(*                                                                         *)
(* A JavaScript number is modelled as a record [nan, val]: an integer      *)
(* val, or NaN (nan = TRUE), with the arithmetic and the comparisons of    *)
(* JavaScript on them.                                                     *)
(***************************************************************************)
EXTENDS Integers, Sequences, FiniteSets

VARIABLES
    progress,   \* data.progress, the value the view renders
    op,         \* the last operation: "none", "advance", "retreat", "assign"
    args,       \* the argument list the caller passed to the last call
    prev,       \* progress before the last operation
    op2,        \* the operation before the last one
    prev2,      \* progress before the last two operations
    base,       \* progress at the start of the current run of one method
    n           \* number of consecutive calls of that method in the run

vars == <<progress, op, args, prev, op2, prev2, base, n>>

----------------------------------------------------------------------------
(* Bounds of the model *)

\* longest run of consecutive calls of one method that is explored
MaxRun == 150
\* a large step a caller may pass to advance or retreat
StepBig == 1000
\* how far on either side of 0 and of 100 a direct assignment goes
Over == 5
\* longest call sequence whose reorderings are compared
MaxCalls == 3

(* Constants of the program *)

\* the second argument of Math.min in advance
MaxProgress == 100
\* the second argument of Math.max in retreat
MinProgress == 0

----------------------------------------------------------------------------
(* JavaScript numbers *)

NaN == [nan |-> TRUE, val |-> 0]

Num(i) == [nan |-> FALSE, val |-> i]

\* a + b
Plus(a, b) == IF a.nan \/ b.nan THEN NaN ELSE Num(a.val + b.val)

\* a - b
Minus(a, b) == IF a.nan \/ b.nan THEN NaN ELSE Num(a.val - b.val)

\* Math.min(a, b): NaN when either argument is NaN
MathMin(a, b) == IF a.nan \/ b.nan THEN NaN ELSE IF a.val <= b.val THEN a ELSE b

\* Math.max(a, b): NaN when either argument is NaN
MathMax(a, b) == IF a.nan \/ b.nan THEN NaN ELSE IF a.val >= b.val THEN a ELSE b

\* the argument lists a caller passes: none, a zero step, a large step
Args == {<<>>, <<0>>, <<StepBig>>}

\* the parameter "input" of the variant with a parameter: undefined when
\* the caller passes nothing, and undefined + number is NaN
FirstArg(a) == IF a = <<>> THEN NaN ELSE Num(a[1])

\* the values typed at the console: app.progress = v
ConsoleValues ==
    {Num(i) : i \in (MinProgress - Over)..(MinProgress + Over)}
        \cup {Num(i) : i \in (MaxProgress - Over)..(MaxProgress + Over)}
        \cup {NaN}

----------------------------------------------------------------------------
(* The two methods *)

\* faulty variants of advanceResult: no clamp, Math.max for Math.min, bound 99
advanceResult_noClamp(p) == Plus(p, Num(1))

advanceResult_max(p) == MathMax(Plus(p, Num(1)), Num(MaxProgress))

advanceResult_bound99(p) == MathMin(Plus(p, Num(1)), Num(MaxProgress - 1))

\* Math.min(this.progress + 1, 100)
advanceResult(p) == MathMin(Plus(p, Num(1)), Num(MaxProgress))

\* faulty variants of retreatResult: no clamp, Math.min for Math.max
retreatResult_noClamp(p) == Minus(p, Num(1))

retreatResult_min(p) == MathMin(Minus(p, Num(1)), Num(MinProgress))

\* Math.max(this.progress - 1, 0)
retreatResult(p) == MathMax(Minus(p, Num(1)), Num(MinProgress))

\* methods[o].call(app): what calling method o makes of progress p
Call(o, p) == IF o = "advance" THEN advanceResult(p) ELSE retreatResult(p)

\* progress after the calls of sequence s, made in order from progress p
RECURSIVE Run(_, _)
Run(s, p) == IF s = <<>> THEN p ELSE Run(Tail(s), Call(Head(s), p))

\* bound: the run of one method may grow by one more call
RunRoom(o) == op = o => n < MaxRun

\* what the model remembers of a call: which, with what, from where
Record(o, a) ==
    /\ op' = o
    /\ args' = a
    /\ prev' = progress
    /\ op2' = op
    /\ prev2' = prev
    /\ base' = IF op = o THEN base ELSE progress
    /\ n' = IF op = o THEN n + 1 ELSE 1

\* faulty variant of advance: the one with a parameter, function(input)
advance_input(a) ==
    /\ RunRoom("advance")
    /\ progress' = MathMin(Plus(progress, FirstArg(a)), Num(MaxProgress))
    /\ Record("advance", a)

\* advance: function() { this.progress = Math.min(this.progress + 1, 100); }
advance(a) ==
    /\ RunRoom("advance")
    /\ progress' = advanceResult(progress)
    /\ Record("advance", a)

\* faulty variant of retreat: the one with a parameter
retreat_input(a) ==
    /\ RunRoom("retreat")
    /\ progress' = MathMax(Minus(progress, FirstArg(a)), Num(MinProgress))
    /\ Record("retreat", a)

\* retreat: function() { this.progress = Math.max(this.progress - 1, 0); }
retreat(a) ==
    /\ RunRoom("retreat")
    /\ progress' = retreatResult(progress)
    /\ Record("retreat", a)

\* app.progress = v, typed at the JavaScript console
assign(v) ==
    /\ progress' = v
    /\ op' = "assign"
    /\ args' = <<>>
    /\ prev' = progress
    /\ op2' = op
    /\ prev2' = prev
    /\ base' = v
    /\ n' = 0

\* data: function() { return { progress: 0 } }
Init ==
    /\ progress = Num(0)
    /\ op = "none"
    /\ args = <<>>
    /\ prev = Num(0)
    /\ op2 = "none"
    /\ prev2 = Num(0)
    /\ base = Num(0)
    /\ n = 0

\* the methods, called from the view with any argument list
Next ==
    \/ \E a \in Args : advance(a)
    \/ \E a \in Args : retreat(a)

Spec == Init /\ [][Next]_vars

\* the methods, and direct assignment from the console
NextConsole ==
    \/ \E a \in Args : advance(a)
    \/ \E a \in Args : retreat(a)
    \/ \E v \in ConsoleValues : assign(v)

SpecConsole == Init /\ [][NextConsole]_vars

----------------------------------------------------------------------------
(* What the claims are stated with *)

\* v is a number of the closed interval [0, 100]
InRange(v) == ~v.nan /\ 0 <= v.val /\ v.val <= 100

\* the smaller and the larger of two integers
Smaller(i, j) == IF i <= j THEN i ELSE j

Larger(i, j) == IF i >= j THEN i ELSE j

\* the step the specification reads from an argument list: 1 when omitted
StepOf(a) == IF a = <<>> THEN 1 ELSE a[1]

----------------------------------------------------------------------------
\* C1: from progress = 0, after any sequence of advance and retreat calls,
\* 0 <= progress <= 100 in every state; a call is one assignment of a clamped
\* value, so no state in between is outside the interval either.
C1_ProgressInRange == ~progress.nan /\ 0 <= progress.val /\ progress.val <= 100

\* two consecutive advance calls were made, the last one at the upper bound
C1_Witness ==
    /\ op = "advance" /\ prev = Num(100) /\ progress = Num(100)
    /\ op2 = "advance"

\* C2, as stated: advance(step) yields min(progress + step, 100), step
\* defaulting to 1; advance(1000) from 0 yields 100.
C2_AdvanceAddsStep ==
    (op = "advance" /\ InRange(prev)) =>
        /\ ~progress.nan
        /\ progress.val = Smaller(prev.val + StepOf(args), 100)

\* C2, amended: advance yields min(progress + 1, 100) whatever argument is
\* passed, and the result is in [0, 100]; advance(1000) from 0 yields 1.
C2_AdvanceAddsOne ==
    (op = "advance" /\ InRange(prev)) =>
        /\ ~progress.nan
        /\ progress.val = Smaller(prev.val + 1, 100)
        /\ 0 <= progress.val /\ progress.val <= 100

\* advance(1000) was called at progress = 0 and left progress = 1
C2_Witness ==
    op = "advance" /\ args = <<StepBig>> /\ prev = Num(0) /\ progress = Num(1)

\* C3, as stated: retreat(step) yields max(progress - step, 0), step
\* defaulting to 1, and the result is in [0, 100].
C3_RetreatSubtractsStep ==
    (op = "retreat" /\ InRange(prev)) =>
        /\ ~progress.nan
        /\ progress.val = Larger(prev.val - StepOf(args), 0)
        /\ 0 <= progress.val /\ progress.val <= 100

\* C3, amended: retreat yields max(progress - 1, 0) whatever argument is
\* passed, and the result is in [0, 100].
C3_RetreatSubtractsOne ==
    (op = "retreat" /\ InRange(prev)) =>
        /\ ~progress.nan
        /\ progress.val = Larger(prev.val - 1, 0)
        /\ 0 <= progress.val /\ progress.val <= 100

\* retreat(1000) was called at progress = 100 and left progress = 99
C3_Witness ==
    op = "retreat" /\ args = <<StepBig>> /\ prev = Num(100) /\ progress = Num(99)

\* C4: the bounds absorb: an advance call made at progress = 100 leaves 100
\* and a retreat call made at progress = 0 leaves 0, so any number of
\* consecutive such calls does.
C4_BoundsAbsorb ==
    /\ (op = "advance" /\ prev = Num(100)) => progress = Num(100)
    /\ (op = "retreat" /\ prev = Num(0)) => progress = Num(0)

\* three consecutive retreat calls were made from progress = 0
C4_Witness ==
    /\ op = "retreat" /\ base = Num(0) /\ n = 3
    /\ prev = Num(0) /\ prev2 = Num(0) /\ progress = Num(0)

\* C5: n consecutive advance calls from p in [0, 100] leave min(p + n, 100)
\* and n consecutive retreat calls leave max(p - n, 0): progress saturates
\* at the bound after at most 100 - p (resp. p) calls and stays there; 150
\* calls from 0 give 100, 150 retreat calls from 100 give 0.
C5_RunsSaturate ==
    /\ (op = "advance" /\ InRange(base)) =>
           /\ progress = Num(Smaller(base.val + n, 100))
           /\ (n >= 100 - base.val => progress = Num(100))
    /\ (op = "retreat" /\ InRange(base)) =>
           /\ progress = Num(Larger(base.val - n, 0))
           /\ (n >= base.val => progress = Num(0))

\* 150 consecutive advance calls were made from progress = 0
C5_Witness ==
    op = "advance" /\ base = Num(0) /\ n = 150 /\ progress = Num(100)

\* C6: away from the bound the two methods undo each other: from p < 100,
\* advance then retreat restores p; from p > 0, retreat then advance
\* restores p.
C6_RoundTrip ==
    /\ (op2 = "advance" /\ op = "retreat" /\ InRange(prev2) /\ prev2.val < 100)
           => progress = prev2
    /\ (op2 = "retreat" /\ op = "advance" /\ InRange(prev2) /\ prev2.val > 0)
           => progress = prev2

\* advance then retreat were called from progress = 50
C6_Witness ==
    /\ op2 = "advance" /\ op = "retreat"
    /\ prev2 = Num(50) /\ prev = Num(51) /\ progress = Num(50)

\* the call sequences of at most MaxCalls calls
CallSeqs == UNION {[1..k -> {"advance", "retreat"}] : k \in 0..MaxCalls}

\* how many calls of method o sequence s makes
CountOf(s, o) == Cardinality({i \in DOMAIN s : s[i] = o})

\* s and t make the same number of calls of each method
SameCounts(s, t) ==
    /\ CountOf(s, "advance") = CountOf(t, "advance")
    /\ CountOf(s, "retreat") = CountOf(t, "retreat")

\* some call of s, made in order from p, is made at its own bound
RECURSIVE MeetsBound(_, _)
MeetsBound(s, p) ==
    /\ s # <<>>
    /\ \/ Head(s) = "advance" /\ p = Num(100)
       \/ Head(s) = "retreat" /\ p = Num(0)
       \/ MeetsBound(Tail(s), Call(Head(s), p))

\* C7, as stated: from every progress in [0, 100], advance then retreat
\* ends where retreat then advance ends, and the end of any call sequence
\* made from there depends only on how many calls of each method it makes.
C7_OrderIndependent ==
    /\ (op2 = "advance" /\ op = "retreat" /\ InRange(prev2))
           => progress = Run(<<"retreat", "advance">>, prev2)
    /\ (op2 = "retreat" /\ op = "advance" /\ InRange(prev2))
           => progress = Run(<<"advance", "retreat">>, prev2)
    /\ op2 # "none" =>
           \A s, t \in CallSeqs :
               SameCounts(s, t) => Run(s, prev2) = Run(t, prev2)

\* C7, amended: from every progress with 0 < progress < 100, advance then
\* retreat ends where retreat then advance ends, at progress; from 100 the
\* first order ends at 99 and the second at 100, from 0 they end at 0 and at
\* 1.  The end of a call sequence depends only on the two counts among the
\* sequences none of whose calls is made at its own bound (advance at 100,
\* retreat at 0), and is then progress + advances - retreats.
C7_OrderIndependentInside ==
    /\ (op2 = "advance" /\ op = "retreat" /\ InRange(prev2)) =>
           /\ (0 < prev2.val /\ prev2.val < 100) =>
                  /\ progress = Run(<<"retreat", "advance">>, prev2)
                  /\ progress = prev2
           /\ prev2 = Num(100) =>
                  /\ progress = Num(99)
                  /\ Run(<<"retreat", "advance">>, prev2) = Num(100)
           /\ prev2 = Num(0) =>
                  /\ progress = Num(0)
                  /\ Run(<<"retreat", "advance">>, prev2) = Num(1)
    /\ (op2 = "retreat" /\ op = "advance" /\ InRange(prev2)) =>
           /\ (0 < prev2.val /\ prev2.val < 100) =>
                  /\ progress = Run(<<"advance", "retreat">>, prev2)
                  /\ progress = prev2
           /\ prev2 = Num(100) =>
                  /\ progress = Num(100)
                  /\ Run(<<"advance", "retreat">>, prev2) = Num(99)
           /\ prev2 = Num(0) =>
                  /\ progress = Num(1)
                  /\ Run(<<"advance", "retreat">>, prev2) = Num(0)
    /\ op2 # "none" =>
           \A s \in CallSeqs :
               ~MeetsBound(s, prev2) =>
                   Run(s, prev2) =
                       Num(prev2.val + CountOf(s, "advance") - CountOf(s, "retreat"))

\* retreat then advance were called from progress = 99, inside the interval
C7_Witness ==
    /\ op2 = "retreat" /\ op = "advance"
    /\ prev2 = Num(99) /\ prev = Num(98) /\ progress = Num(99)

\* advance, called again and again from p, visits p + 1, p + 2, ..., 100
RECURSIVE Climbs(_)
Climbs(p) ==
    \/ p.val >= 100
    \/ /\ advanceResult(p) = Num(p.val + 1)
       /\ Climbs(Num(p.val + 1))

\* retreat, called again and again from p, visits p - 1, p - 2, ..., 0
RECURSIVE Descends(_)
Descends(p) ==
    \/ p.val <= 0
    \/ /\ retreatResult(p) = Num(p.val - 1)
       /\ Descends(Num(p.val - 1))

\* C8: every integer of 0..100 is reached from every other by advance and
\* retreat calls: from each value the program reaches, advance calls visit
\* every larger value up to 100 and retreat calls every smaller one down to
\* 0; a call changes nothing only when it is advance at 100 or retreat at 0.
C8_AllValuesReachable ==
    /\ InRange(progress)
    /\ Climbs(progress)
    /\ Descends(progress)
    /\ op = "advance" => (progress = prev <=> prev = Num(100))
    /\ op = "retreat" => (progress = prev <=> prev = Num(0))

\* progress went from 0 up to 100 and, by 100 retreat calls, back to 0
C8_Witness ==
    op = "retreat" /\ base = Num(100) /\ n = 100 /\ progress = Num(0)

\* C9: a call moves progress by at most one unit whatever arguments are
\* passed: advance by +1 below 100 and by 0 at 100, retreat by -1 above 0
\* and by 0 at 0.
C9_OneUnitPerCall ==
    /\ op = "advance" =>
           /\ ~progress.nan /\ ~prev.nan
           /\ progress.val - prev.val = (IF prev.val < 100 THEN 1 ELSE 0)
    /\ op = "retreat" =>
           /\ ~progress.nan /\ ~prev.nan
           /\ progress.val - prev.val = (IF prev.val > 0 THEN -1 ELSE 0)

\* retreat(1000) was called at progress = 50 and moved it by one
C9_Witness ==
    op = "retreat" /\ args = <<StepBig>> /\ prev = Num(50) /\ progress = Num(49)

\* C10, as stated: from any prior value, also one written by direct
\* assignment, progress <= 100 after advance and progress >= 0 after retreat.
C10_MethodsEnforceBounds ==
    /\ op = "advance" => (~progress.nan /\ progress.val <= 100)
    /\ op = "retreat" => (~progress.nan /\ progress.val >= 0)

\* C10, amended: from any prior number other than NaN, also one written by
\* direct assignment, progress <= 100 after advance and progress >= 0 after
\* retreat; a prior NaN stays NaN through either method, so that progress
\* is never greater than 100 after advance nor less than 0 after retreat.
C10_MethodsEnforceBoundsOnNumbers ==
    /\ op = "advance" =>
           IF prev.nan THEN progress.nan
           ELSE ~progress.nan /\ progress.val <= 100
    /\ op = "retreat" =>
           IF prev.nan THEN progress.nan
           ELSE ~progress.nan /\ progress.val >= 0

\* app.progress = 105 was typed at the console and advance called after it
C10_Witness ==
    /\ op2 = "assign" /\ prev = Num(105)
    /\ op = "advance" /\ progress = Num(100)

====
